---- MODULE Spec2Model ----
(***************************************************************************)
(* Duty allocation engine of the supervision chart generator               *)
(* (scheduler.py): generate_exam_dates followed by generate_schedule.      *)
(*                                                                         *)
(* A date is a day number counted from Monday 2024-01-01 (day 0).  Within  *)
(* 2024 (days 0..363) date.weekday() is the day number modulo 7 and the    *)
(* ISO week of date.isocalendar() is the day number divided by 7, plus 1.  *)
(* A dict is a function whose DOMAIN is the set of keys present.           *)
(***************************************************************************)
EXTENDS Integers, Sequences, FiniteSets, TLC

VARIABLES
    start_date, end_date, exclude_weekends, holidays,      \* generate_exam_dates arguments
    names,                                                 \* staff_df.iloc[:,1] as a list
    default_blocks, special_blocks, session_blocks,        \* generate_schedule arguments
    day_blocks, date_session_blocks,
    pc,                                                    \* position in the two functions
    cur, dates,                                            \* generate_exam_dates locals
    di, si, blocks,                                        \* for d in dates / for session / blocks
    morning_total, evening_total,
    supervisor_morning_count, supervisor_evening_count,
    assignments, ai, i, assigned, best_supervisor,
    schedule_rows,
    run, previous_schedule,                                \* calls made so far, schedule the last one returned
    other,                                                 \* locals of a second, concurrent call
    supervisor_name, schedule_df,                          \* build_supervisor_table arguments
    tpc, table_dates, ti, table_rows, sr,                  \* build_supervisor_table position and locals
    apc,                                                   \* position in a run of the app script
    pressed, ticked,                                       \* the button pressed and the names ticked in this run
    now,                                                   \* the clock, in ticks
    session_schedule, loaded_from, loaded_now,             \* st.session_state schedule keys
    schedule_json, schedule_pkl, generated_at,             \* schedule_state.json / .pkl, schedule_meta.json
    attendance_in_session, attendance, attendance_json,    \* st.session_state["attendance"], attendance_state.json
    absentee_map,                                          \* st.session_state["absentee_map"]
    cleared, memo_presses                                  \* cleared since the last generation; memo buttons pressed

vars == <<start_date, end_date, exclude_weekends, holidays, names,
          default_blocks, special_blocks, session_blocks, day_blocks,
          date_session_blocks, pc, cur, dates, di, si, blocks,
          morning_total, evening_total, supervisor_morning_count,
          supervisor_evening_count, assignments, ai, i, assigned,
          best_supervisor, schedule_rows, run, previous_schedule, other,
          supervisor_name, schedule_df, tpc, table_dates, ti, table_rows, sr,
          apc, pressed, ticked, now, session_schedule, loaded_from, loaded_now,
          schedule_json, schedule_pkl, generated_at, attendance_in_session,
          attendance, attendance_json, absentee_map, cleared, memo_presses>>

streamlit == <<pressed, ticked, now, session_schedule, loaded_from, loaded_now,
             schedule_json, schedule_pkl, generated_at, attendance_in_session,
             attendance, attendance_json, absentee_map, cleared, memo_presses>>

table == <<supervisor_name, schedule_df, tpc, table_dates, ti, table_rows, sr>>

app == <<table, apc, streamlit>>

calls == <<run, previous_schedule, other>>

inputs == <<start_date, end_date, exclude_weekends, holidays, names,
            default_blocks, special_blocks, session_blocks, day_blocks,
            date_session_blocks>>

----------------------------------------------------------------------------
(* Bounds of the model *)

MaxDay == 7             \* last day number of the calendar window (Monday of week 2)
Span == 3               \* the calendar window is MaxDay - Span .. MaxDay
MaxHolidays == 2        \* length of the holiday list
MaxBlocks == 2          \* largest configured blocks value
MaxDeficit == 3         \* a per-date override typed as text may be as low as -MaxDeficit
MaxRoster == 3          \* largest roster
MaxAllocSpan == 3       \* the allocation runs end at most this many days after their start
MaxRuns == 2            \* calls of generate_schedule made one after the other
MaxTableDay == 1        \* the schedules given to build_supervisor_table have dates 0..MaxTableDay
MaxTableRows == 3       \* and at most this many rows
MaxCountBlocks == 4     \* largest blocks value of the required-count runs
MaxMemoPresses == 2     \* presses of the memo buttons in a session history
TTL_DAYS == 7           \* app.py: TTL_DAYS
TicksPerDay == 2        \* the clock counts half days

----------------------------------------------------------------------------
(* Calendar and key helpers *)

day_names == <<"Monday", "Tuesday", "Wednesday", "Thursday", "Friday", "Saturday", "Sunday">>

SessionsEveningFirst == <<"Evening", "Morning">>

Sessions == <<"Morning", "Evening">>

Weekday(d) == d % 7

IsoWeek(d) == (d \div 7) + 1

Lower(session) == IF session = "Morning" THEN "morning" ELSE "evening"

WeekDayKey(iso_week, day_name) == "week_" \o ToString(iso_week) \o "_" \o day_name

InList(x, list) == \E j \in 1..Len(list) : list[j] = x

IsSkippedWeekendSatSun(d) == exclude_weekends /\ Weekday(d) >= 5

IsSkippedWeekend(d) == exclude_weekends /\ Weekday(d) = 6

----------------------------------------------------------------------------
(* Block-count resolution and the extras rule *)

FirstPassBlocksNoDateSession(d, session) ==
    LET day_name == day_names[Weekday(d) + 1]
        week_day_key == WeekDayKey(IsoWeek(d), day_name)
        s == Lower(session)
        b_day == IF week_day_key \in DOMAIN day_blocks /\ s \in DOMAIN day_blocks[week_day_key]
                 THEN day_blocks[week_day_key][s]
                 ELSE IF day_name \in DOMAIN day_blocks /\ s \in DOMAIN day_blocks[day_name]
                      THEN day_blocks[day_name][s]
                      ELSE default_blocks
        b_session == IF b_day = default_blocks /\ DOMAIN session_blocks # {} /\ s \in DOMAIN session_blocks
                     THEN session_blocks[s]
                     ELSE b_day
    IN  IF d \in DOMAIN special_blocks THEN special_blocks[d] ELSE b_session

FirstPassBlocks(d, session) ==
    LET day_name == day_names[Weekday(d) + 1]
        week_day_key == WeekDayKey(IsoWeek(d), day_name)
        s == Lower(session)
        b_day == IF week_day_key \in DOMAIN day_blocks /\ s \in DOMAIN day_blocks[week_day_key]
                 THEN day_blocks[week_day_key][s]
                 ELSE IF day_name \in DOMAIN day_blocks /\ s \in DOMAIN day_blocks[day_name]
                      THEN day_blocks[day_name][s]
                      ELSE default_blocks
        b_session == IF b_day = default_blocks /\ DOMAIN session_blocks # {} /\ s \in DOMAIN session_blocks
                     THEN session_blocks[s]
                     ELSE b_day
        b_special == IF d \in DOMAIN special_blocks THEN special_blocks[d] ELSE b_session
    IN  IF d \in DOMAIN date_session_blocks /\ s \in DOMAIN date_session_blocks[d]
        THEN date_session_blocks[d][s]
        ELSE b_special

FirstPassCount(b) == b + (IF b = 1 THEN 1 ELSE 2)

ResolveBlocksSpecialLast(d, session) ==
    LET day_name == day_names[Weekday(d) + 1]
        week_day_key == WeekDayKey(IsoWeek(d), day_name)
        s == Lower(session)
        b_day == IF week_day_key \in DOMAIN day_blocks /\ s \in DOMAIN day_blocks[week_day_key]
                 THEN day_blocks[week_day_key][s]
                 ELSE IF day_name \in DOMAIN day_blocks /\ s \in DOMAIN day_blocks[day_name]
                      THEN day_blocks[day_name][s]
                      ELSE default_blocks
        b_session == IF b_day = default_blocks /\ DOMAIN session_blocks # {} /\ s \in DOMAIN session_blocks
                     THEN session_blocks[s]
                     ELSE b_day
        b_date_session == IF d \in DOMAIN date_session_blocks /\ s \in DOMAIN date_session_blocks[d]
                          THEN date_session_blocks[d][s]
                          ELSE b_session
    IN  IF d \in DOMAIN special_blocks THEN special_blocks[d] ELSE b_date_session

ResolveBlocksElif(d, session) ==
    LET day_name == day_names[Weekday(d) + 1]
        week_day_key == WeekDayKey(IsoWeek(d), day_name)
        s == Lower(session)
        b_day == IF week_day_key \in DOMAIN day_blocks /\ s \in DOMAIN day_blocks[week_day_key]
                 THEN day_blocks[week_day_key][s]
                 ELSE IF day_name \in DOMAIN day_blocks /\ s \in DOMAIN day_blocks[day_name]
                      THEN day_blocks[day_name][s]
                      ELSE default_blocks
        b_session == IF b_day = default_blocks /\ DOMAIN session_blocks # {} /\ s \in DOMAIN session_blocks
                     THEN session_blocks[s]
                     ELSE b_day
    IN  IF d \in DOMAIN date_session_blocks
        THEN (IF s \in DOMAIN date_session_blocks[d] THEN date_session_blocks[d][s] ELSE b_session)
        ELSE IF d \in DOMAIN special_blocks THEN special_blocks[d] ELSE b_session

ResolveBlocksNoLower(d, session) ==
    LET day_name == day_names[Weekday(d) + 1]
        week_day_key == WeekDayKey(IsoWeek(d), day_name)
        s == Lower(session)
        b_day == IF week_day_key \in DOMAIN day_blocks /\ s \in DOMAIN day_blocks[week_day_key]
                 THEN day_blocks[week_day_key][s]
                 ELSE IF day_name \in DOMAIN day_blocks /\ s \in DOMAIN day_blocks[day_name]
                      THEN day_blocks[day_name][s]
                      ELSE default_blocks
        b_session == IF b_day = default_blocks /\ DOMAIN session_blocks # {} /\ session \in DOMAIN session_blocks
                     THEN session_blocks[session]
                     ELSE b_day
        b_special == IF d \in DOMAIN special_blocks THEN special_blocks[d] ELSE b_session
    IN  IF d \in DOMAIN date_session_blocks /\ s \in DOMAIN date_session_blocks[d]
        THEN date_session_blocks[d][s]
        ELSE b_special

ResolveBlocks(d, session) ==
    LET day_name == day_names[Weekday(d) + 1]
        week_day_key == WeekDayKey(IsoWeek(d), day_name)
        s == Lower(session)
        b_day == IF week_day_key \in DOMAIN day_blocks /\ s \in DOMAIN day_blocks[week_day_key]
                 THEN day_blocks[week_day_key][s]
                 ELSE IF day_name \in DOMAIN day_blocks /\ s \in DOMAIN day_blocks[day_name]
                      THEN day_blocks[day_name][s]
                      ELSE default_blocks
        b_session == IF b_day = default_blocks /\ DOMAIN session_blocks # {} /\ s \in DOMAIN session_blocks
                     THEN session_blocks[s]
                     ELSE b_day
        b_special == IF d \in DOMAIN special_blocks THEN special_blocks[d] ELSE b_session
    IN  IF d \in DOMAIN date_session_blocks /\ s \in DOMAIN date_session_blocks[d]
        THEN date_session_blocks[d][s]
        ELSE b_special

ExtrasAlwaysTwo(b) == 2

Extras(b) == IF b = 1 THEN 1 ELSE 2

RequiredCountBlocksOnly(b) == b

RequiredCount(b) == b + Extras(b)

----------------------------------------------------------------------------
(* min(names, key=...): the first element of names whose key is smallest,  *)
(* keys being pairs compared lexicographically                             *)

TupleLessOrEqual(a, b) == a[1] < b[1] \/ (a[1] = b[1] /\ a[2] <= b[2])

TupleLess(a, b) == a[1] < b[1] \/ (a[1] = b[1] /\ a[2] < b[2])

MorningKeyEveningCount(name) ==
    <<supervisor_evening_count[name],
      supervisor_morning_count[name] + supervisor_evening_count[name]>>

MorningKey(name) ==
    <<supervisor_morning_count[name],
      supervisor_morning_count[name] + supervisor_evening_count[name]>>

EveningKeyCountOnly(name) == <<supervisor_evening_count[name], 0>>

EveningKey(name) ==
    <<supervisor_evening_count[name],
      supervisor_morning_count[name] + supervisor_evening_count[name]>>

RECURSIVE MinScan(_, _, _)
MinScan(keys, j, best) ==
    IF j > Len(keys) THEN best
    ELSE MinScan(keys, j + 1, IF TupleLess(keys[j], keys[best]) THEN j ELSE best)

MinIndexFirst(keys) == 1

MinIndex(keys) == MinScan(keys, 2, 1)

BestMorning == names[MinIndex([j \in 1..Len(names) |-> MorningKey(names[j])])]

BestEvening == names[MinIndex([j \in 1..Len(names) |-> EveningKey(names[j])])]

----------------------------------------------------------------------------
(* generate_exam_dates *)

SkipSundayNoAdvance ==
    /\ pc = "dates"
    /\ cur <= end_date
    /\ IsSkippedWeekend(cur)
    /\ cur' = cur
    /\ UNCHANGED <<inputs, app, calls, pc, dates, di, si, blocks, morning_total, evening_total,
                   supervisor_morning_count, supervisor_evening_count,
                   assignments, ai, i, assigned, best_supervisor, schedule_rows>>

SkipSunday ==
    /\ pc = "dates"
    /\ cur <= end_date
    /\ IsSkippedWeekend(cur)
    /\ cur' = cur + 1
    /\ UNCHANGED <<inputs, app, calls, pc, dates, di, si, blocks, morning_total, evening_total,
                   supervisor_morning_count, supervisor_evening_count,
                   assignments, ai, i, assigned, best_supervisor, schedule_rows>>

SkipHoliday ==
    /\ pc = "dates"
    /\ cur <= end_date
    /\ ~IsSkippedWeekend(cur)
    /\ InList(cur, holidays)
    /\ cur' = cur + 1
    /\ UNCHANGED <<inputs, app, calls, pc, dates, di, si, blocks, morning_total, evening_total,
                   supervisor_morning_count, supervisor_evening_count,
                   assignments, ai, i, assigned, best_supervisor, schedule_rows>>

AppendDateInFront ==
    /\ pc = "dates"
    /\ cur <= end_date
    /\ ~IsSkippedWeekend(cur)
    /\ ~InList(cur, holidays)
    /\ dates' = <<cur>> \o dates
    /\ cur' = cur + 1
    /\ UNCHANGED <<inputs, app, calls, pc, di, si, blocks, morning_total, evening_total,
                   supervisor_morning_count, supervisor_evening_count,
                   assignments, ai, i, assigned, best_supervisor, schedule_rows>>

AppendDate ==
    /\ pc = "dates"
    /\ cur <= end_date
    /\ ~IsSkippedWeekend(cur)
    /\ ~InList(cur, holidays)
    /\ dates' = Append(dates, cur)
    /\ cur' = cur + 1
    /\ UNCHANGED <<inputs, app, calls, pc, di, si, blocks, morning_total, evening_total,
                   supervisor_morning_count, supervisor_evening_count,
                   assignments, ai, i, assigned, best_supervisor, schedule_rows>>

ReturnDates ==
    /\ pc = "dates"
    /\ ~(cur <= end_date)
    /\ pc' = "roster"
    /\ UNCHANGED <<inputs, app, calls, cur, dates, di, si, blocks, morning_total, evening_total,
                   supervisor_morning_count, supervisor_evening_count,
                   assignments, ai, i, assigned, best_supervisor, schedule_rows>>

----------------------------------------------------------------------------
(* generate_schedule *)

RaiseIfNothingToDo ==
    /\ pc = "roster"
    /\ (Len(names) = 0 \/ Len(dates) = 0)
    /\ pc' = "error"
    /\ UNCHANGED <<inputs, app, calls, cur, dates, di, si, blocks, morning_total, evening_total,
                   supervisor_morning_count, supervisor_evening_count,
                   assignments, ai, i, assigned, best_supervisor, schedule_rows>>

RaiseNoSupervisors ==
    /\ pc = "roster"
    /\ Len(names) = 0
    /\ pc' = "error"
    /\ UNCHANGED <<inputs, app, calls, cur, dates, di, si, blocks, morning_total, evening_total,
                   supervisor_morning_count, supervisor_evening_count,
                   assignments, ai, i, assigned, best_supervisor, schedule_rows>>

BeginFirstPassUnchecked ==
    /\ pc = "roster"
    /\ pc' = "pass1"
    /\ schedule_rows' = <<>>
    /\ morning_total' = 0
    /\ evening_total' = 0
    /\ di' = 1
    /\ si' = 1
    /\ UNCHANGED <<inputs, app, calls, cur, dates, blocks,
                   supervisor_morning_count, supervisor_evening_count,
                   assignments, ai, i, assigned, best_supervisor>>

BeginFirstPass ==
    /\ pc = "roster"
    /\ Len(names) # 0
    /\ pc' = "pass1"
    /\ schedule_rows' = <<>>
    /\ morning_total' = 0
    /\ evening_total' = 0
    /\ di' = 1
    /\ si' = 1
    /\ UNCHANGED <<inputs, app, calls, cur, dates, blocks,
                   supervisor_morning_count, supervisor_evening_count,
                   assignments, ai, i, assigned, best_supervisor>>

FirstPassStep ==
    /\ pc = "pass1"
    /\ di <= Len(dates)
    /\ LET b == FirstPassBlocks(dates[di], Sessions[si])
           count == FirstPassCount(b)
       IN  /\ blocks' = b
           /\ IF Sessions[si] = "Morning"
              THEN morning_total' = morning_total + count /\ UNCHANGED evening_total
              ELSE evening_total' = evening_total + count /\ UNCHANGED morning_total
    /\ IF si < Len(Sessions) THEN si' = si + 1 /\ UNCHANGED di
                             ELSE si' = 1 /\ di' = di + 1
    /\ UNCHANGED <<inputs, app, calls, pc, cur, dates,
                   supervisor_morning_count, supervisor_evening_count,
                   assignments, ai, i, assigned, best_supervisor, schedule_rows>>

BeginSecondPassKeepCounters ==
    /\ pc = "pass1"
    /\ di > Len(dates)
    /\ pc' = "pass2"
    /\ supervisor_morning_count' =
          IF DOMAIN supervisor_morning_count = {}
          THEN [name \in {names[j] : j \in 1..Len(names)} |-> 0]
          ELSE supervisor_morning_count
    /\ supervisor_evening_count' =
          IF DOMAIN supervisor_evening_count = {}
          THEN [name \in {names[j] : j \in 1..Len(names)} |-> 0]
          ELSE supervisor_evening_count
    /\ assignments' = <<>>
    /\ di' = 1
    /\ si' = 1
    /\ UNCHANGED <<inputs, app, calls, cur, dates, blocks, morning_total, evening_total,
                   ai, i, assigned, best_supervisor, schedule_rows>>

BeginSecondPass ==
    /\ pc = "pass1"
    /\ di > Len(dates)
    /\ pc' = "pass2"
    /\ supervisor_morning_count' = [name \in {names[j] : j \in 1..Len(names)} |-> 0]
    /\ supervisor_evening_count' = [name \in {names[j] : j \in 1..Len(names)} |-> 0]
    /\ assignments' = <<>>
    /\ di' = 1
    /\ si' = 1
    /\ UNCHANGED <<inputs, app, calls, cur, dates, blocks, morning_total, evening_total,
                   ai, i, assigned, best_supervisor, schedule_rows>>

SecondPassStep ==
    /\ pc = "pass2"
    /\ di <= Len(dates)
    /\ LET b == ResolveBlocks(dates[di], Sessions[si])
       IN  /\ blocks' = b
           /\ assignments' = Append(assignments,
                  [date |-> dates[di], session |-> Sessions[si], count |-> RequiredCount(b)])
    /\ IF si < Len(Sessions) THEN si' = si + 1 /\ UNCHANGED di
                             ELSE si' = 1 /\ di' = di + 1
    /\ UNCHANGED <<inputs, app, calls, pc, cur, dates, morning_total, evening_total,
                   supervisor_morning_count, supervisor_evening_count,
                   ai, i, assigned, best_supervisor, schedule_rows>>

BeginAssign ==
    /\ pc = "pass2"
    /\ di > Len(dates)
    /\ pc' = "assign"
    /\ ai' = 1
    /\ i' = 0
    /\ assigned' = <<>>
    /\ UNCHANGED <<inputs, app, calls, cur, dates, di, si, blocks, morning_total, evening_total,
                   supervisor_morning_count, supervisor_evening_count,
                   assignments, best_supervisor, schedule_rows>>

PickMorningNoRepeat ==
    /\ pc = "assign"
    /\ ai <= Len(assignments)
    /\ i < assignments[ai].count
    /\ assignments[ai].session = "Morning"
    /\ best_supervisor' = BestMorning
    /\ supervisor_morning_count' =
          [supervisor_morning_count EXCEPT ![BestMorning] = @ + 1]
    /\ assigned' = IF InList(BestMorning, assigned) THEN assigned
                                                    ELSE Append(assigned, BestMorning)
    /\ i' = i + 1
    /\ UNCHANGED <<inputs, app, calls, pc, cur, dates, di, si, blocks, morning_total, evening_total,
                   supervisor_evening_count, assignments, ai, schedule_rows>>

PickMorning ==
    /\ pc = "assign"
    /\ ai <= Len(assignments)
    /\ i < assignments[ai].count
    /\ assignments[ai].session = "Morning"
    /\ best_supervisor' = BestMorning
    /\ supervisor_morning_count' =
          [supervisor_morning_count EXCEPT ![BestMorning] = @ + 1]
    /\ assigned' = Append(assigned, BestMorning)
    /\ i' = i + 1
    /\ UNCHANGED <<inputs, app, calls, pc, cur, dates, di, si, blocks, morning_total, evening_total,
                   supervisor_evening_count, assignments, ai, schedule_rows>>

PickEvening ==
    /\ pc = "assign"
    /\ ai <= Len(assignments)
    /\ i < assignments[ai].count
    /\ assignments[ai].session # "Morning"
    /\ best_supervisor' = BestEvening
    /\ supervisor_evening_count' =
          [supervisor_evening_count EXCEPT ![BestEvening] = @ + 1]
    /\ assigned' = Append(assigned, BestEvening)
    /\ i' = i + 1
    /\ UNCHANGED <<inputs, app, calls, pc, cur, dates, di, si, blocks, morning_total, evening_total,
                   supervisor_morning_count, assignments, ai, schedule_rows>>

AppendRow ==
    /\ pc = "assign"
    /\ ai <= Len(assignments)
    /\ ~(i < assignments[ai].count)
    /\ schedule_rows' = Append(schedule_rows,
           [date |-> assignments[ai].date, session |-> assignments[ai].session,
            assigned |-> assigned])
    /\ ai' = ai + 1
    /\ i' = 0
    /\ assigned' = <<>>
    /\ UNCHANGED <<inputs, app, calls, pc, cur, dates, di, si, blocks, morning_total, evening_total,
                   supervisor_morning_count, supervisor_evening_count,
                   assignments, best_supervisor>>

ReturnSchedule ==
    /\ pc = "assign"
    /\ ai > Len(assignments)
    /\ pc' = "done"
    /\ UNCHANGED <<inputs, app, calls, cur, dates, di, si, blocks, morning_total, evening_total,
                   supervisor_morning_count, supervisor_evening_count,
                   assignments, ai, i, assigned, best_supervisor, schedule_rows>>

Next ==
    \/ SkipSunday
    \/ SkipHoliday
    \/ AppendDate
    \/ ReturnDates
    \/ RaiseNoSupervisors
    \/ BeginFirstPass
    \/ FirstPassStep
    \/ BeginSecondPass
    \/ SecondPassStep
    \/ BeginAssign
    \/ PickMorning
    \/ PickEvening
    \/ AppendRow
    \/ ReturnSchedule

----------------------------------------------------------------------------
(* A further call of generate_schedule with the same arguments, after the  *)
(* previous call has returned.  The caller keeps the schedule returned;    *)
(* the new call's locals hold nothing until the code assigns them, so      *)
(* whatever the variables held is left in them.                            *)

CallAgain ==
    /\ pc = "done"
    /\ run < MaxRuns
    /\ pc' = "roster"
    /\ run' = run + 1
    /\ previous_schedule' = schedule_rows
    /\ UNCHANGED <<inputs, app, other, cur, dates, di, si, blocks, morning_total, evening_total,
                   supervisor_morning_count, supervisor_evening_count,
                   assignments, ai, i, assigned, best_supervisor, schedule_rows>>

NextSequential ==
    \/ Next
    \/ CallAgain

----------------------------------------------------------------------------
(* A second call of generate_schedule with the same arguments, running     *)
(* concurrently with the calls above once a first call has completed.  A   *)
(* call's locals belong to the call: the second call's are the fields of   *)
(* other.                                                                  *)

main == <<pc, cur, dates, di, si, blocks, morning_total, evening_total,
          supervisor_morning_count, supervisor_evening_count,
          assignments, ai, i, assigned, best_supervisor, schedule_rows>>

OtherMorningKeyShared(name) ==
    <<supervisor_morning_count[name],
      supervisor_morning_count[name] + supervisor_evening_count[name]>>

OtherMorningKey(name) ==
    <<other.supervisor_morning_count[name],
      other.supervisor_morning_count[name] + other.supervisor_evening_count[name]>>

OtherEveningKey(name) ==
    <<other.supervisor_evening_count[name],
      other.supervisor_morning_count[name] + other.supervisor_evening_count[name]>>

OtherBestMorning == names[MinIndex([j \in 1..Len(names) |-> OtherMorningKey(names[j])])]

OtherBestEvening == names[MinIndex([j \in 1..Len(names) |-> OtherEveningKey(names[j])])]

OtherCall ==
    /\ other.pc = "idle"
    /\ (pc = "error" \/ run >= 2)
    /\ other' = [other EXCEPT !.pc = "roster"]
    /\ UNCHANGED <<inputs, app, run, previous_schedule, main>>

OtherRaiseNoSupervisors ==
    /\ other.pc = "roster"
    /\ Len(names) = 0
    /\ other' = [other EXCEPT !.pc = "error"]
    /\ UNCHANGED <<inputs, app, run, previous_schedule, main>>

OtherBeginFirstPass ==
    /\ other.pc = "roster"
    /\ Len(names) # 0
    /\ other' = [other EXCEPT !.pc = "pass1", !.schedule_rows = <<>>,
                              !.morning_total = 0, !.evening_total = 0,
                              !.di = 1, !.si = 1]
    /\ UNCHANGED <<inputs, app, run, previous_schedule, main>>

OtherFirstPassStep ==
    /\ other.pc = "pass1"
    /\ other.di <= Len(dates)
    /\ LET b == FirstPassBlocks(dates[other.di], Sessions[other.si])
           count == FirstPassCount(b)
           morning == Sessions[other.si] = "Morning"
           last == ~(other.si < Len(Sessions))
       IN  other' = [other EXCEPT
                        !.blocks = b,
                        !.morning_total = IF morning THEN @ + count ELSE @,
                        !.evening_total = IF morning THEN @ ELSE @ + count,
                        !.si = IF last THEN 1 ELSE @ + 1,
                        !.di = IF last THEN @ + 1 ELSE @]
    /\ UNCHANGED <<inputs, app, run, previous_schedule, main>>

OtherBeginSecondPass ==
    /\ other.pc = "pass1"
    /\ other.di > Len(dates)
    /\ other' = [other EXCEPT
                    !.pc = "pass2",
                    !.supervisor_morning_count = [name \in {names[j] : j \in 1..Len(names)} |-> 0],
                    !.supervisor_evening_count = [name \in {names[j] : j \in 1..Len(names)} |-> 0],
                    !.assignments = <<>>,
                    !.di = 1, !.si = 1]
    /\ UNCHANGED <<inputs, app, run, previous_schedule, main>>

OtherSecondPassStep ==
    /\ other.pc = "pass2"
    /\ other.di <= Len(dates)
    /\ LET b == ResolveBlocks(dates[other.di], Sessions[other.si])
           last == ~(other.si < Len(Sessions))
       IN  other' = [other EXCEPT
                        !.blocks = b,
                        !.assignments = Append(@, [date |-> dates[other.di],
                                                   session |-> Sessions[other.si],
                                                   count |-> RequiredCount(b)]),
                        !.si = IF last THEN 1 ELSE @ + 1,
                        !.di = IF last THEN @ + 1 ELSE @]
    /\ UNCHANGED <<inputs, app, run, previous_schedule, main>>

OtherBeginAssign ==
    /\ other.pc = "pass2"
    /\ other.di > Len(dates)
    /\ other' = [other EXCEPT !.pc = "assign", !.ai = 1, !.i = 0, !.assigned = <<>>]
    /\ UNCHANGED <<inputs, app, run, previous_schedule, main>>

OtherPickMorning ==
    /\ other.pc = "assign"
    /\ other.ai <= Len(other.assignments)
    /\ other.i < other.assignments[other.ai].count
    /\ other.assignments[other.ai].session = "Morning"
    /\ other' = [other EXCEPT
                    !.best_supervisor = OtherBestMorning,
                    !.supervisor_morning_count[OtherBestMorning] = @ + 1,
                    !.assigned = Append(@, OtherBestMorning),
                    !.i = @ + 1]
    /\ UNCHANGED <<inputs, app, run, previous_schedule, main>>

OtherPickEvening ==
    /\ other.pc = "assign"
    /\ other.ai <= Len(other.assignments)
    /\ other.i < other.assignments[other.ai].count
    /\ other.assignments[other.ai].session # "Morning"
    /\ other' = [other EXCEPT
                    !.best_supervisor = OtherBestEvening,
                    !.supervisor_evening_count[OtherBestEvening] = @ + 1,
                    !.assigned = Append(@, OtherBestEvening),
                    !.i = @ + 1]
    /\ UNCHANGED <<inputs, app, run, previous_schedule, main>>

OtherAppendRow ==
    /\ other.pc = "assign"
    /\ other.ai <= Len(other.assignments)
    /\ ~(other.i < other.assignments[other.ai].count)
    /\ other' = [other EXCEPT
                    !.schedule_rows = Append(@, [date |-> other.assignments[other.ai].date,
                                                 session |-> other.assignments[other.ai].session,
                                                 assigned |-> other.assigned]),
                    !.ai = @ + 1, !.i = 0, !.assigned = <<>>]
    /\ UNCHANGED <<inputs, app, run, previous_schedule, main>>

OtherReturnSchedule ==
    /\ other.pc = "assign"
    /\ other.ai > Len(other.assignments)
    /\ other' = [other EXCEPT !.pc = "done"]
    /\ UNCHANGED <<inputs, app, run, previous_schedule, main>>

NextConcurrent ==
    \/ Next
    \/ CallAgain
    \/ OtherCall
    \/ OtherRaiseNoSupervisors
    \/ OtherBeginFirstPass
    \/ OtherFirstPassStep
    \/ OtherBeginSecondPass
    \/ OtherSecondPassStep
    \/ OtherBeginAssign
    \/ OtherPickMorning
    \/ OtherPickEvening
    \/ OtherAppendRow
    \/ OtherReturnSchedule

----------------------------------------------------------------------------
(* build_supervisor_table(supervisor_name, schedule_df)                    *)
(* A tick is the string "tick" (the check mark of the source), no tick the *)
(* empty string.                                                           *)

RECURSIVE SortedList(_)
SortedList(S) ==
    IF S = {} THEN <<>>
    ELSE LET least == CHOOSE x \in S : \A y \in S : x <= y
         IN  <<least>> \o SortedList(S \ {least})

UniqueDates(df) == {df[j].date : j \in 1..Len(df)}

(* strftime('%Y-%m-%d') of a day of January 2024 *)
FormatDate(d) ==
    IF d + 1 < 10 THEN "2024-01-0" \o ToString(d + 1) ELSE "2024-01-" \o ToString(d + 1)

(* schedule_df[(date == d) & (session == session)]: the matching row indices *)
Matching(df, d, session) == {j \in 1..Len(df) : df[j].date = d /\ df[j].session = session}

(* .iloc[0]["assigned"] if not empty else [] *)
FirstAssigned(df, d, session) ==
    IF Matching(df, d, session) = {} THEN <<>>
    ELSE df[CHOOSE j \in Matching(df, d, session) :
                \A k \in Matching(df, d, session) : j <= k].assigned

TickAnySession(df, d, session) ==
    IF \E j \in 1..Len(df) : df[j].date = d /\ InList(supervisor_name, df[j].assigned)
    THEN "tick" ELSE ""

Tick(df, d, session) ==
    IF InList(supervisor_name, FirstAssigned(df, d, session)) THEN "tick" ELSE ""

BeginTableRaise ==
    /\ tpc = "call"
    /\ Len(schedule_df) = 0
    /\ tpc' = "error"
    /\ UNCHANGED <<inputs, calls, main, apc, streamlit, supervisor_name, schedule_df,
                   table_dates, ti, table_rows, sr>>

BeginTable ==
    /\ tpc = "call"
    /\ Len(schedule_df) # 0
    /\ table_rows' = <<>>
    /\ table_dates' = SortedList(UniqueDates(schedule_df))
    /\ sr' = 1
    /\ ti' = 1
    /\ tpc' = "loop"
    /\ UNCHANGED <<inputs, calls, main, apc, streamlit, supervisor_name, schedule_df>>

TableStep ==
    /\ tpc = "loop"
    /\ ti <= Len(table_dates)
    /\ LET d == table_dates[ti]
           m_tick == Tick(schedule_df, d, "Morning")
           e_tick == Tick(schedule_df, d, "Evening")
       IN  IF m_tick # "" \/ e_tick # ""
           THEN /\ table_rows' = Append(table_rows,
                        [SrNo |-> sr, Date |-> FormatDate(d),
                         Morning |-> m_tick, Evening |-> e_tick])
                /\ sr' = sr + 1
           ELSE UNCHANGED <<table_rows, sr>>
    /\ ti' = ti + 1
    /\ UNCHANGED <<inputs, calls, main, apc, streamlit, supervisor_name, schedule_df, tpc, table_dates>>

ReturnTable ==
    /\ tpc = "loop"
    /\ ti > Len(table_dates)
    /\ tpc' = "done"
    /\ UNCHANGED <<inputs, calls, main, apc, streamlit, supervisor_name, schedule_df,
                   table_dates, ti, table_rows, sr>>

NextTable ==
    \/ BeginTableRaise
    \/ BeginTable
    \/ TableStep
    \/ ReturnTable

----------------------------------------------------------------------------
(* Input domains *)

EmptyDict == [k \in {} |-> 0]

BlockVals == 1..MaxBlocks

SpecialVals == BlockVals \cup {0, -MaxDeficit}

SessionKeys == {"morning", "evening"}

PartialDicts(K, V) == UNION {[S -> V] : S \in SUBSET K}

NamePool == <<"A", "B", "C", "D", "E">>

Rosters ==
    UNION {{r \in [1..n -> {NamePool[j] : j \in 1..n}] :
               \A a, b \in 1..n : a # b => r[a] # r[b]} : n \in 0..MaxRoster}

SeqsUpTo(S, n) == UNION {[1..m -> S] : m \in 0..n}

CalDays == (MaxDay - Span)..MaxDay

IdleFrame ==
    [pc |-> "idle", di |-> 1, si |-> 1, blocks |-> 0,
     morning_total |-> 0, evening_total |-> 0,
     supervisor_morning_count |-> EmptyDict, supervisor_evening_count |-> EmptyDict,
     assignments |-> <<>>, ai |-> 1, i |-> 0, assigned |-> <<>>,
     best_supervisor |-> "", schedule_rows |-> <<>>]

NoSchedule == [present |-> FALSE, df |-> <<>>]

NoButton == [button |-> "none", date |-> 0]

SessionIdle ==
    /\ pressed = NoButton
    /\ ticked = {}
    /\ now = 0
    /\ session_schedule = NoSchedule
    /\ loaded_from = ""
    /\ loaded_now = "no"
    /\ schedule_json = NoSchedule
    /\ schedule_pkl = NoSchedule
    /\ generated_at = 0
    /\ attendance_in_session = FALSE
    /\ attendance = <<>>
    /\ attendance_json = <<>>
    /\ absentee_map = EmptyDict
    /\ cleared = FALSE
    /\ memo_presses = 0

TableIdle ==
    /\ supervisor_name = ""
    /\ schedule_df = <<>>
    /\ tpc = "idle"
    /\ table_dates = <<>>
    /\ ti = 1
    /\ table_rows = <<>>
    /\ sr = 1

Locals ==
    /\ pc = "dates"
    /\ cur = start_date
    /\ dates = <<>>
    /\ di = 1
    /\ si = 1
    /\ blocks = 0
    /\ morning_total = 0
    /\ evening_total = 0
    /\ supervisor_morning_count = EmptyDict
    /\ supervisor_evening_count = EmptyDict
    /\ assignments = <<>>
    /\ ai = 1
    /\ i = 0
    /\ assigned = <<>>
    /\ best_supervisor = ""
    /\ schedule_rows = <<>>
    /\ run = 1
    /\ previous_schedule = <<>>
    /\ other = IdleFrame
    /\ TableIdle
    /\ apc = "idle"
    /\ SessionIdle

(* Allocation runs: Saturday of week 1 alone, or up to MaxAllocSpan days on *)
(* with the Sunday skipped and the last day a holiday; every roster order;  *)
(* blocks varied per run, per session and per date.                         *)

Init ==
    /\ start_date = 5
    /\ end_date \in {5, 5 + MaxAllocSpan}
    /\ exclude_weekends = TRUE
    /\ holidays = <<5 + MaxAllocSpan>>
    /\ names \in Rosters
    /\ default_blocks \in BlockVals
    /\ session_blocks \in {EmptyDict} \cup {[s \in {"evening"} |-> v] : v \in BlockVals}
    /\ special_blocks \in {EmptyDict} \cup {[d \in {5} |-> v] : v \in SpecialVals}
    /\ day_blocks = EmptyDict
    /\ date_session_blocks = EmptyDict
    /\ Locals

Spec == Init /\ [][Next]_vars

(* Calendar runs: every start and end date of the window, both flag values, *)
(* every holiday list of the window (repeats and out-of-range dates too).   *)
InitCalendar ==
    /\ start_date \in CalDays
    /\ end_date \in CalDays
    /\ exclude_weekends \in BOOLEAN
    /\ holidays \in SeqsUpTo(CalDays, MaxHolidays)
    /\ names \in {<<>>, <<"A">>}
    /\ default_blocks = 1
    /\ session_blocks = EmptyDict
    /\ special_blocks = EmptyDict
    /\ day_blocks = EmptyDict
    /\ date_session_blocks = EmptyDict
    /\ Locals

SpecCalendar == InitCalendar /\ [][Next]_vars

(* The calendar runs of a program that keeps executing: a call that can    *)
(* take a step takes it.                                                   *)
SpecCalendarFair == InitCalendar /\ [][Next]_vars /\ WF_vars(Next)

(* Configuration runs: one active date (Monday of week 1; Monday of week 2  *)
(* after a skipped Sunday; a kept Sunday before a holiday Monday) and every *)
(* combination of the five layers keyed for Monday of week 1.               *)
ConfigValues == {1, MaxBlocks}

DayEntries == {EmptyDict} \cup [SessionKeys -> ConfigValues]

DayBlocksOf(week_entry, day_entry) ==
    [k \in (IF week_entry = EmptyDict THEN {} ELSE {WeekDayKey(1, "Monday")})
           \cup (IF day_entry = EmptyDict THEN {} ELSE {"Monday"}) |->
        IF k = "Monday" THEN day_entry ELSE week_entry]

InitConfig ==
    /\ \/ start_date = 0 /\ end_date = 0 /\ exclude_weekends = TRUE /\ holidays = <<>>
       \/ start_date = 6 /\ end_date = 7 /\ exclude_weekends = TRUE /\ holidays = <<>>
       \/ start_date = 6 /\ end_date = 7 /\ exclude_weekends = FALSE /\ holidays = <<7>>
    /\ \/ /\ names = <<"A">>
          /\ default_blocks \in ConfigValues
          /\ session_blocks \in PartialDicts(SessionKeys, ConfigValues)
          /\ \E week_entry, day_entry \in DayEntries :
                 day_blocks = DayBlocksOf(week_entry, day_entry)
          /\ special_blocks \in PartialDicts({0}, ConfigValues)
          /\ \E e \in PartialDicts(SessionKeys, ConfigValues) :
                 date_session_blocks = IF e = EmptyDict THEN EmptyDict ELSE [d \in {0} |-> e]
       \/ /\ names = <<>>
          /\ default_blocks = MaxBlocks
          /\ session_blocks = EmptyDict
          /\ day_blocks = EmptyDict
          /\ special_blocks = EmptyDict
          /\ date_session_blocks = EmptyDict
    /\ Locals

SpecConfig == InitConfig /\ [][Next]_vars

(* The scenario of the week of Monday 2024-01-01 to Sunday 2024-01-07 with *)
(* Sundays skipped, blocks 2 everywhere and roster A, B, C; beside it the  *)
(* same week with a holiday on Thursday and with an empty roster.          *)
InitScenario ==
    /\ start_date = 0
    /\ end_date = 6
    /\ exclude_weekends = TRUE
    /\ holidays \in {<<>>, <<3>>}
    /\ names \in {<<"A", "B", "C">>, <<>>}
    /\ default_blocks = 2
    /\ session_blocks = EmptyDict
    /\ special_blocks = EmptyDict
    /\ day_blocks = EmptyDict
    /\ date_session_blocks = EmptyDict
    /\ Locals

SpecScenario == InitScenario /\ [][Next]_vars

(* The allocation runs, each call followed by further calls with the same  *)
(* arguments.                                                              *)
SpecSequential == Init /\ [][NextSequential]_vars

(* Concurrent runs: rosters of up to two names, one or two active dates,   *)
(* blocks varied per run and per session.                                  *)
InitConcurrent ==
    /\ start_date = 5
    /\ end_date \in {5, 5 + MaxAllocSpan}
    /\ exclude_weekends = TRUE
    /\ holidays = <<5 + MaxAllocSpan>>
    /\ names \in {r \in Rosters : Len(r) <= 2}
    /\ default_blocks \in BlockVals
    /\ session_blocks \in {EmptyDict} \cup {[s \in {"evening"} |-> v] : v \in BlockVals}
    /\ special_blocks = EmptyDict
    /\ day_blocks = EmptyDict
    /\ date_session_blocks = EmptyDict
    /\ Locals

SpecConcurrent == InitConcurrent /\ [][NextConcurrent]_vars

MainIdle ==
    /\ pc = "idle"
    /\ cur = 0
    /\ dates = <<>>
    /\ di = 1
    /\ si = 1
    /\ blocks = 0
    /\ morning_total = 0
    /\ evening_total = 0
    /\ supervisor_morning_count = EmptyDict
    /\ supervisor_evening_count = EmptyDict
    /\ assignments = <<>>
    /\ ai = 1
    /\ i = 0
    /\ assigned = <<>>
    /\ best_supervisor = ""
    /\ schedule_rows = <<>>
    /\ run = 1
    /\ previous_schedule = <<>>
    /\ other = IdleFrame

(* No call of the allocation engine in progress *)
SchedulerIdle ==
    /\ start_date = 0
    /\ end_date = 0
    /\ exclude_weekends = TRUE
    /\ holidays = <<>>
    /\ names = <<>>
    /\ default_blocks = 2
    /\ special_blocks = EmptyDict
    /\ session_blocks = EmptyDict
    /\ day_blocks = EmptyDict
    /\ date_session_blocks = EmptyDict
    /\ MainIdle

(* Schedules given to build_supervisor_table: rows in any order, at most   *)
(* one row per date and session (as generate_schedule and the restore      *)
(* tool's normalisation produce them), a session possibly missing,         *)
(* assigned lists empty, single, or with a repeated name.                  *)
AssignedLists == {<<>>, <<"A">>, <<"B">>, <<"B", "A", "A">>}

TableRowSet == [date : 0..MaxTableDay, session : {"Morning", "Evening"}, assigned : AssignedLists]

TableSchedules ==
    {df \in SeqsUpTo(TableRowSet, MaxTableRows) :
        \A a, b \in 1..Len(df) :
            (a # b) => (df[a].date # df[b].date \/ df[a].session # df[b].session)}

InitTable ==
    /\ SchedulerIdle
    /\ supervisor_name \in {"A", "C"}
    /\ schedule_df \in TableSchedules
    /\ tpc = "call"
    /\ table_dates = <<>>
    /\ ti = 1
    /\ table_rows = <<>>
    /\ sr = 1
    /\ apc = "idle"
    /\ SessionIdle

SpecTable == InitTable /\ [][NextTable]_vars

(* Load runs: Friday and Saturday of week 1 and Monday of week 2 (the      *)
(* Sunday skipped, Tuesday a holiday), rosters of three and four distinct  *)
(* names, blocks chosen per date and session.                              *)
LoadDates == {4, 5, 7}

InitLoad ==
    /\ start_date = 4
    /\ end_date = 8
    /\ exclude_weekends = TRUE
    /\ holidays = <<8>>
    /\ names \in {<<>>, <<"A", "B", "C">>, <<"B", "A", "C", "D">>}
    /\ default_blocks = 1
    /\ session_blocks = EmptyDict
    /\ special_blocks = EmptyDict
    /\ day_blocks = EmptyDict
    /\ date_session_blocks \in [LoadDates -> [{"morning", "evening"} -> BlockVals]]
    /\ Locals

SpecLoad == InitLoad /\ [][Next]_vars

(* Required-count runs: Saturday of week 1 and Monday of week 2, one       *)
(* supervisor, every positive blocks value up to MaxCountBlocks as the     *)
(* default and as the Evening default.                                     *)
InitCount ==
    /\ start_date = 5
    /\ end_date = 8
    /\ exclude_weekends = TRUE
    /\ holidays = <<8>>
    /\ names \in {<<>>, <<"A">>}
    /\ default_blocks \in 1..MaxCountBlocks
    /\ session_blocks \in {EmptyDict} \cup {[s \in {"evening"} |-> v] : v \in 1..MaxCountBlocks}
    /\ special_blocks = EmptyDict
    /\ day_blocks = EmptyDict
    /\ date_session_blocks = EmptyDict
    /\ Locals

SpecCount == InitCount /\ [][Next]_vars

----------------------------------------------------------------------------
(* The app script (app.py): week-wise day-wise block configuration and the *)
(* "Generate Schedule" button                                              *)

(* generate_exam_dates as the app calls it at line 491 *)
RECURSIVE ExamDatesFrom(_)
ExamDatesFrom(c) ==
    IF ~(c <= end_date) THEN <<>>
    ELSE IF IsSkippedWeekend(c) THEN ExamDatesFrom(c + 1)
    ELSE IF InList(c, holidays) THEN ExamDatesFrom(c + 1)
    ELSE <<c>> \o ExamDatesFrom(c + 1)

exam_dates == ExamDatesFrom(start_date)

(* sorted(weeks_dict.items()): the ISO weeks that hold exam dates, ascending *)
sorted_weeks == SortedList({IsoWeek(exam_dates[j]) : j \in 1..Len(exam_dates)})

(* week_day_count[day] > 0 for the week at position week_idx *)
WeekHasDay(week_idx, day) ==
    \E j \in 1..Len(exam_dates) :
        /\ IsoWeek(exam_dates[j]) = sorted_weeks[week_idx]
        /\ day_names[Weekday(exam_dates[j]) + 1] = day

(* f"week_{week_idx}_{day}" *)
AppKey(week_idx, day) == WeekDayKey(week_idx, day)

(* the (week_idx, day) pairs that get input fields: Monday to Saturday with *)
(* at least one exam date in that week                                      *)
AppSlots ==
    {slot \in (1..Len(sorted_weeks)) \X {day_names[n] : n \in 1..6} :
        WeekHasDay(slot[1], slot[2])}

(* day_blocks as lines 572-576 fill it from the number inputs vals *)
DayBlocksFrom(vals) ==
    [key \in {AppKey(slot[1], slot[2]) : slot \in AppSlots} |->
        LET slot == CHOOSE sl \in AppSlots : AppKey(sl[1], sl[2]) = key
        IN  [morning |-> vals[slot].morning,
             evening |-> vals[slot].evening,
             week_number |-> slot[1]]]

BuildDayBlocks ==
    /\ apc = "config"
    /\ IF Len(exam_dates) = 0
       THEN day_blocks' = EmptyDict
       ELSE \E vals \in [AppSlots -> [morning : ConfigValues, evening : ConfigValues]] :
                day_blocks' = DayBlocksFrom(vals)
    /\ apc' = "load"
    /\ UNCHANGED <<start_date, end_date, exclude_weekends, holidays, names,
                   default_blocks, special_blocks, session_blocks, date_session_blocks,
                   calls, main, table, streamlit>>

(* the same with every number input left at its initial value=2 *)
BuildDayBlocksDefault ==
    /\ apc = "config"
    /\ IF Len(exam_dates) = 0
       THEN day_blocks' = EmptyDict
       ELSE day_blocks' = DayBlocksFrom([slot \in AppSlots |-> [morning |-> 2, evening |-> 2]])
    /\ apc' = "load"
    /\ UNCHANGED <<start_date, end_date, exclude_weekends, holidays, names,
                   default_blocks, special_blocks, session_blocks, date_session_blocks,
                   calls, main, table, streamlit>>

(* load_schedule_state(): the pickle if it exists, else the JSON records *)
LoadScheduleState ==
    IF schedule_pkl.present THEN schedule_pkl
    ELSE IF schedule_json.present /\ Len(schedule_json.df) # 0 THEN schedule_json
    ELSE NoSchedule

(* (datetime.now() - ts_dt).days *)
AgeDays == (now - generated_at) \div TicksPerDay

Stale == AgeDays > TTL_DAYS

(* ensure_schedule_schema(df) is None for an empty frame *)
Normalizes(loaded) == Len(loaded.df) # 0

(* lines 634-693: auto-load of the persisted schedule *)
AutoLoad ==
    /\ apc = "load"
    /\ apc' = "press"
    /\ IF session_schedule.present \/ ~LoadScheduleState.present
       THEN UNCHANGED <<session_schedule, loaded_from, loaded_now>>
       ELSE IF Stale
            THEN IF pressed.button = "force" /\ Normalizes(LoadScheduleState)
                 THEN /\ session_schedule' = LoadScheduleState
                      /\ loaded_from' = "disk"
                      /\ loaded_now' = "force"
                 ELSE /\ loaded_from' = "disk_stale"
                      /\ UNCHANGED <<session_schedule, loaded_now>>
            ELSE IF Normalizes(LoadScheduleState)
                 THEN /\ session_schedule' = LoadScheduleState
                      /\ loaded_from' = "disk"
                      /\ loaded_now' = "auto"
                 ELSE UNCHANGED <<session_schedule, loaded_from, loaded_now>>
    /\ UNCHANGED <<inputs, calls, main, table, pressed, ticked, now,
                   schedule_json, schedule_pkl, generated_at, attendance_in_session,
                   attendance, attendance_json, absentee_map, cleared, memo_presses>>

GeneratePress ==
    /\ apc = "press"
    /\ pressed.button = "generate"
    /\ pc = "idle"
    /\ default_blocks' = 2
    /\ session_blocks' = EmptyDict
    /\ pc' = "dates"
    /\ cur' = start_date
    /\ dates' = <<>>
    /\ apc' = "generate"
    /\ UNCHANGED <<start_date, end_date, exclude_weekends, holidays, names,
                   special_blocks, day_blocks, date_session_blocks,
                   calls, table, streamlit, di, si, blocks, morning_total, evening_total,
                   supervisor_morning_count, supervisor_evening_count,
                   assignments, ai, i, assigned, best_supervisor, schedule_rows>>

NextWeekwise ==
    \/ BuildDayBlocks
    \/ AutoLoad
    \/ GeneratePress
    \/ Next

(* Week-wise runs of the app: the exam period starts on Saturday of ISO    *)
(* week 1 or on Monday of ISO week 2 and lasts MaxAllocSpan days, the last *)
(* one a holiday; the roster is empty or one name.                         *)
InitWeekwise ==
    /\ start_date \in {5, 7}
    /\ end_date = start_date + MaxAllocSpan
    /\ exclude_weekends = TRUE
    /\ holidays = <<start_date + MaxAllocSpan>>
    /\ names \in {<<>>, <<"A">>}
    /\ default_blocks = 2
    /\ session_blocks = EmptyDict
    /\ special_blocks = EmptyDict
    /\ day_blocks = EmptyDict
    /\ date_session_blocks = EmptyDict
    /\ MainIdle
    /\ TableIdle
    /\ apc = "config"
    /\ pressed = [button |-> "generate", date |-> 0]
    /\ ticked = {}
    /\ now = 0
    /\ session_schedule = NoSchedule
    /\ loaded_from = ""
    /\ loaded_now = "no"
    /\ schedule_json = NoSchedule
    /\ schedule_pkl = NoSchedule
    /\ generated_at = 0
    /\ attendance_in_session = FALSE
    /\ attendance = <<>>
    /\ attendance_json = <<>>
    /\ absentee_map = EmptyDict
    /\ cleared = FALSE
    /\ memo_presses = 0

SpecWeekwise == InitWeekwise /\ [][NextWeekwise]_vars

----------------------------------------------------------------------------
(* Runs of the app script in a browser session.  A run executes the script *)
(* top to bottom with at most one button pressed: Clear persisted schedule *)
(* (413-423), configuration (490-584), auto-load (634-693), Generate       *)
(* Schedule (703-744), attendance marking (1088-1221), absence memos       *)
(* (1326-1342).  The restore-from-file tool is not used in these runs.     *)

MaxNow == TicksPerDay * (TTL_DAYS + 1) + 1

FormSaturday == [start_date |-> 5, end_date |-> 5, holidays |-> <<>>]

FormMonday == [start_date |-> 6, end_date |-> 8, holidays |-> <<8>>]

Button(name) == [button |-> name, date |-> 0]

(* time passes between runs *)
TimePasses ==
    /\ apc = "idle"
    /\ \E k \in {1, TicksPerDay * TTL_DAYS} :
           /\ now + k <= MaxNow
           /\ now' = now + k
    /\ UNCHANGED <<inputs, calls, main, table, apc, pressed, ticked,
                   session_schedule, loaded_from, loaded_now,
                   schedule_json, schedule_pkl, generated_at, attendance_in_session,
                   attendance, attendance_json, absentee_map, cleared, memo_presses>>

(* a new browser session: st.session_state starts empty, the files stay *)
NewSession ==
    /\ apc = "idle"
    /\ session_schedule.present \/ attendance_in_session
    /\ session_schedule' = NoSchedule
    /\ loaded_from' = ""
    /\ loaded_now' = "no"
    /\ attendance_in_session' = FALSE
    /\ attendance' = <<>>
    /\ absentee_map' = EmptyDict
    /\ pressed' = NoButton
    /\ ticked' = {}
    /\ UNCHANGED <<inputs, calls, main, table, apc, now,
                   schedule_json, schedule_pkl, generated_at,
                   attendance_json, cleared, memo_presses>>

IsMemoButton(b) == b.button \in {"save_date", "gen_memos"}

(* the user fills the form, ticks the checkboxes t and presses button b;   *)
(* a button can be pressed only if the previous run displayed it           *)
StartRun(b, form, t) ==
    /\ apc = "idle"
    /\ b.button = "force" => loaded_from = "disk_stale"
    /\ IsMemoButton(b) =>
           /\ session_schedule.present
           /\ Len(session_schedule.df) # 0
           /\ memo_presses < MaxMemoPresses
    /\ b.button = "save_date" =>
           \E j \in 1..Len(session_schedule.df) : session_schedule.df[j].date = b.date
    /\ pressed' = b
    /\ ticked' = t
    /\ loaded_now' = "no"
    /\ memo_presses' = IF IsMemoButton(b) THEN memo_presses + 1 ELSE memo_presses
    /\ start_date' = form.start_date
    /\ end_date' = form.end_date
    /\ holidays' = form.holidays
    /\ apc' = "clear"
    /\ UNCHANGED <<exclude_weekends, names, default_blocks, special_blocks,
                   session_blocks, day_blocks, date_session_blocks,
                   calls, main, table, now, session_schedule, loaded_from,
                   schedule_json, schedule_pkl, generated_at, attendance_in_session,
                   attendance, attendance_json, absentee_map, cleared>>

(* lines 413-423 *)
ClearStep ==
    /\ apc = "clear"
    /\ IF pressed.button = "clear"
       THEN /\ schedule_json' = NoSchedule
            /\ session_schedule' = NoSchedule
            /\ cleared' = TRUE
       ELSE UNCHANGED <<schedule_json, session_schedule, cleared>>
    /\ apc' = "config"
    /\ UNCHANGED <<inputs, calls, main, table, pressed, ticked, now,
                   loaded_from, loaded_now, schedule_pkl, generated_at,
                   attendance_in_session, attendance, attendance_json,
                   absentee_map, memo_presses>>

(* line 703: the Generate Schedule button was not pressed *)
SkipGenerate ==
    /\ apc = "press"
    /\ pressed.button # "generate"
    /\ apc' = "attend"
    /\ UNCHANGED <<inputs, calls, main, table, streamlit>>

(* lines 723-744: the schedule generate_schedule returned is put into the  *)
(* session and persisted (JSON, pickle, meta with generated_at)            *)
StoreSchedule ==
    /\ apc = "generate"
    /\ pc = "done"
    /\ session_schedule' = [present |-> TRUE, df |-> schedule_rows]
    /\ schedule_json' = [present |-> TRUE, df |-> schedule_rows]
    /\ schedule_pkl' = [present |-> TRUE, df |-> schedule_rows]
    /\ generated_at' = now
    /\ loaded_from' = "generated"
    /\ cleared' = FALSE
    /\ pc' = "idle"
    /\ apc' = "attend"
    /\ UNCHANGED <<inputs, calls, table, cur, dates, di, si, blocks,
                   morning_total, evening_total,
                   supervisor_morning_count, supervisor_evening_count,
                   assignments, ai, i, assigned, best_supervisor, schedule_rows,
                   pressed, ticked, now, loaded_now, attendance_in_session,
                   attendance, attendance_json, absentee_map, memo_presses>>

(* strptime(date_str, "%Y-%m-%d").date() *)
ParseDate(date_str) == CHOOSE d \in 0..30 : FormatDate(d) = date_str

(* the names of an assigned list whose checkbox is ticked *)
PresentOf(list) == SelectSeq(list, LAMBDA name : name \in ticked)

(* lines 1106-1146: the attendance entry of date d *)
AttendanceInfo(df, d) ==
    [key |-> FormatDate(d),
     Morning_present |-> PresentOf(FirstAssigned(df, d, "Morning")),
     Morning_assigned |-> FirstAssigned(df, d, "Morning"),
     Evening_present |-> PresentOf(FirstAssigned(df, d, "Evening")),
     Evening_assigned |-> FirstAssigned(df, d, "Evening")]

(* st.session_state["attendance"][key] = info, a dict keeping insertion order *)
PutInfo(att, info) ==
    IF \E j \in 1..Len(att) : att[j].key = info.key
    THEN [j \in 1..Len(att) |-> IF att[j].key = info.key THEN info ELSE att[j]]
    ELSE Append(att, info)

RECURSIVE PutDates(_, _, _)
PutDates(att, df, ds) ==
    IF ds = <<>> THEN att
    ELSE PutDates(PutInfo(att, AttendanceInfo(df, Head(ds))), df, Tail(ds))

(* for name in assigned: if name not in present: ... append((d, session)) *)
SlotAbsences(list, present, d, session_name) ==
    SelectSeq([j \in 1..Len(list) |-> [name |-> list[j], date |-> d, session |-> session_name]],
              LAMBDA a : ~InList(a.name, present))

InfoAbsences(info, d) ==
    SlotAbsences(info.Morning_assigned, info.Morning_present, d, "Morning")
    \o SlotAbsences(info.Evening_assigned, info.Evening_present, d, "Evening")

RECURSIVE AllAbsences(_)
AllAbsences(att) ==
    IF att = <<>> THEN <<>>
    ELSE InfoAbsences(Head(att), ParseDate(Head(att).key)) \o AllAbsences(Tail(att))

(* the (date, session) pairs of one supervisor, in the order appended *)
AbsencesOfName(abs, name) ==
    LET own == SelectSeq(abs, LAMBDA a : a.name = name)
    IN  [j \in 1..Len(own) |-> <<own[j].date, own[j].session>>]

AbsentNames(abs) == {abs[j].name : j \in 1..Len(abs)}

(* absentee_map.setdefault(name, []).extend(absences) for every name of abs *)
ExtendAbsenteeMap(map, abs) ==
    [name \in (DOMAIN map) \cup AbsentNames(abs) |->
        (IF name \in DOMAIN map THEN map[name] ELSE <<>>) \o AbsencesOfName(abs, name)]

(* lines 1088-1221: attendance section, with the per-date memo button *)
AttendanceStep ==
    /\ apc = "attend"
    /\ IF ~session_schedule.present \/ Len(session_schedule.df) = 0
       THEN /\ apc' = "idle"
            /\ UNCHANGED <<attendance_in_session, attendance, attendance_json, absentee_map>>
       ELSE LET df == session_schedule.df
                loaded == IF attendance_in_session THEN attendance ELSE attendance_json
                marked == PutDates(loaded, df, SortedList(UniqueDates(df)))
            IN  /\ attendance_in_session' = TRUE
                /\ attendance' = marked
                /\ attendance_json' = marked
                /\ absentee_map' =
                       IF pressed.button = "save_date"
                       THEN ExtendAbsenteeMap(absentee_map,
                                InfoAbsences(AttendanceInfo(df, pressed.date), pressed.date))
                       ELSE absentee_map
                /\ apc' = "memos"
    /\ UNCHANGED <<inputs, calls, main, table, pressed, ticked, now,
                   session_schedule, loaded_from, loaded_now,
                   schedule_json, schedule_pkl, generated_at, cleared, memo_presses>>

(* lines 1326-1342: Generate memos for absentees *)
MemoStep ==
    /\ apc = "memos"
    /\ absentee_map' =
           IF pressed.button = "gen_memos" /\ AllAbsences(attendance) # <<>>
           THEN ExtendAbsenteeMap(EmptyDict, AllAbsences(attendance))
           ELSE absentee_map
    /\ apc' = "idle"
    /\ UNCHANGED <<inputs, calls, main, table, pressed, ticked, now,
                   session_schedule, loaded_from, loaded_now,
                   schedule_json, schedule_pkl, generated_at, attendance_in_session,
                   attendance, attendance_json, cleared, memo_presses>>

PersistButtons == {Button("none"), Button("clear"), Button("force"), Button("generate")}

RunStartPersist ==
    \E b \in PersistButtons : StartRun(b, FormMonday, {})

AttendanceButtons ==
    {Button("none"), Button("generate"), Button("gen_memos")}
    \cup {[button |-> "save_date", date |-> d] : d \in {5, 7}}

RunStartAttendance ==
    \E b \in AttendanceButtons, form \in {FormSaturday, FormMonday},
       t \in {{}, {"A"}, {"A", "B"}} :
        StartRun(b, form, t)

(* generate_exam_dates and generate_schedule with a roster that is not empty *)
NextGenerate ==
    \/ SkipSunday
    \/ SkipHoliday
    \/ AppendDate
    \/ ReturnDates
    \/ BeginFirstPass
    \/ FirstPassStep
    \/ BeginSecondPass
    \/ SecondPassStep
    \/ BeginAssign
    \/ PickMorning
    \/ PickEvening
    \/ AppendRow
    \/ ReturnSchedule

NextPersist ==
    \/ TimePasses
    \/ NewSession
    \/ RunStartPersist
    \/ ClearStep
    \/ BuildDayBlocksDefault
    \/ AutoLoad
    \/ GeneratePress
    \/ SkipGenerate
    \/ NextGenerate
    \/ StoreSchedule
    \/ AttendanceStep
    \/ MemoStep

NextAttendance ==
    \/ NewSession
    \/ RunStartAttendance
    \/ ClearStep
    \/ BuildDayBlocksDefault
    \/ AutoLoad
    \/ GeneratePress
    \/ SkipGenerate
    \/ NextGenerate
    \/ StoreSchedule
    \/ AttendanceStep
    \/ MemoStep

(* Between runs, nothing generated yet, nothing on disk *)
InitSession ==
    /\ start_date = 6
    /\ end_date = 8
    /\ exclude_weekends = TRUE
    /\ holidays = <<8>>
    /\ default_blocks = 2
    /\ session_blocks = EmptyDict
    /\ special_blocks = EmptyDict
    /\ day_blocks = EmptyDict
    /\ date_session_blocks = EmptyDict
    /\ MainIdle
    /\ TableIdle
    /\ apc = "idle"
    /\ SessionIdle

InitPersist ==
    /\ names = <<"A">>
    /\ InitSession

SpecPersist == InitPersist /\ [][NextPersist]_vars

InitAttendance ==
    /\ names = <<"A", "B">>
    /\ InitSession

SpecAttendance == InitAttendance /\ [][NextAttendance]_vars

----------------------------------------------------------------------------
(* Properties *)

RosterSet == {names[j] : j \in 1..Len(names)}

IndexOf(name) == CHOOSE j \in 1..Len(names) : names[j] = name

Total(name) == supervisor_morning_count[name] + supervisor_evening_count[name]

SlotCount(name) ==
    IF assignments[ai].session = "Morning"
    THEN supervisor_morning_count[name]
    ELSE supervisor_evening_count[name]

SlotCountAfter(name) ==
    IF assignments[ai].session = "Morning"
    THEN supervisor_morning_count'[name]
    ELSE supervisor_evening_count'[name]

IsPick == pc = "assign" /\ i' = i + 1

(* C1: every schedule entry's assigned list has length blocks + extras,    *)
(* extras being 1 when blocks = 1 and 2 otherwise, for the blocks value    *)
(* resolved for the entry's date and session.                              *)
C1_AssignedLengthIsBlocksPlusExtras ==
    \A r \in 1..Len(schedule_rows) :
        LET b == ResolveBlocks(schedule_rows[r].date, schedule_rows[r].session)
        IN  Len(schedule_rows[r].assigned) = b + (IF b = 1 THEN 1 ELSE 2)

(* C1, the part the code keeps: the equation holds for every entry whose   *)
(* resolved blocks value is at least -2.                                   *)
C1_AssignedLengthFromMinusTwo ==
    \A r \in 1..Len(schedule_rows) :
        LET b == ResolveBlocks(schedule_rows[r].date, schedule_rows[r].session)
        IN  b >= -2 => Len(schedule_rows[r].assigned) = b + (IF b = 1 THEN 1 ELSE 2)

(* C2: the rows are emitted in the order of the date sequence, Morning of  *)
(* a date immediately before its Evening, and a finished run has exactly   *)
(* two rows per date.                                                      *)
C2_TwoRowsPerDateInOrder ==
    /\ \A r \in 1..Len(schedule_rows) :
           /\ (r + 1) \div 2 <= Len(dates)
           /\ schedule_rows[r].date = dates[(r + 1) \div 2]
           /\ schedule_rows[r].session = (IF r % 2 = 1 THEN "Morning" ELSE "Evening")
    /\ pc = "done" => Len(schedule_rows) = 2 * Len(dates)

C2_Witness ==
    /\ pc = "done"
    /\ Len(dates) >= 2
    /\ Len(schedule_rows) = 2 * Len(dates)

(* C3: at every pick the chosen supervisor's count in the slot's own       *)
(* session, before the pick, is at most that of every roster member.       *)
C3_ChosenHasLeastSessionCount ==
    [][IsPick => \A n \in RosterSet : SlotCount(best_supervisor') <= SlotCount(n)]_vars

C3_Witness ==
    /\ pc = "assign"
    /\ i > 0
    /\ ai <= Len(assignments)
    /\ assignments[ai].session = "Evening"
    /\ Len(names) >= 2
    /\ \E n \in RosterSet \ {best_supervisor} :
           supervisor_evening_count[n] >= supervisor_evening_count[best_supervisor]

(* C4: among the supervisors with the least count in the slot's session    *)
(* the chosen one has the least total; among those tied on both it is the  *)
(* earliest of the roster; its session counter is one higher, and every    *)
(* other counter unchanged, before the next pick.                          *)
C4_TieBreakAndImmediateIncrement ==
    [][IsPick =>
         LET c == best_supervisor'
             Least == {n \in RosterSet : \A m \in RosterSet : SlotCount(n) <= SlotCount(m)}
         IN  /\ c \in Least
             /\ \A n \in Least : Total(c) <= Total(n)
             /\ \A n \in Least : Total(n) = Total(c) => IndexOf(c) <= IndexOf(n)
             /\ SlotCountAfter(c) = SlotCount(c) + 1
             /\ \A n \in RosterSet \ {c} : SlotCountAfter(n) = SlotCount(n)
             /\ assigned' = Append(assigned, c)]_vars

C4_Witness ==
    /\ pc = "assign"
    /\ i >= 2
    /\ ai <= Len(assignments)
    /\ assignments[ai].session = "Evening"
    /\ Len(names) >= 3
    /\ IndexOf(best_supervisor) > 1
    /\ \E n \in RosterSet :
           /\ IndexOf(n) < IndexOf(best_supervisor)
           /\ supervisor_evening_count[n] = supervisor_evening_count[best_supervisor] - 1
           /\ Total(n) > Total(best_supervisor) - 1

(* The (date, session) resolved last by the second pass; blocks holds its  *)
(* resolved value.                                                         *)
Resolved == pc = "pass2" /\ Len(assignments) > 0

LastDate == assignments[Len(assignments)].date

LastKey == Lower(assignments[Len(assignments)].session)

OtherKey == IF LastKey = "morning" THEN "evening" ELSE "morning"

LastDayName == day_names[Weekday(LastDate) + 1]

LastWeekKey == WeekDayKey(IsoWeek(LastDate), LastDayName)

HasDateSession == LastDate \in DOMAIN date_session_blocks
                  /\ LastKey \in DOMAIN date_session_blocks[LastDate]

HasSpecial == LastDate \in DOMAIN special_blocks

HasWeekDay == LastWeekKey \in DOMAIN day_blocks /\ LastKey \in DOMAIN day_blocks[LastWeekKey]

HasDay == LastDayName \in DOMAIN day_blocks /\ LastKey \in DOMAIN day_blocks[LastDayName]

HasSessionDefault == LastKey \in DOMAIN session_blocks

(* C5: a per-date-per-session entry for (d, s) is the value resolved for   *)
(* (d, s), whatever the other four layers hold.                            *)
C5_DateSessionOverrideWins ==
    (Resolved /\ HasDateSession) => blocks = date_session_blocks[LastDate][LastKey]

C5_Witness ==
    /\ Resolved /\ HasDateSession /\ HasSpecial /\ HasWeekDay /\ HasDay /\ HasSessionDefault
    /\ blocks = date_session_blocks[LastDate][LastKey]
    /\ blocks # special_blocks[LastDate]
    /\ blocks # day_blocks[LastWeekKey][LastKey]
    /\ blocks # day_blocks[LastDayName][LastKey]
    /\ blocks # session_blocks[LastKey]
    /\ blocks # default_blocks

(* C6: a per-date entry for d is the value resolved for each session of d  *)
(* that has no per-date-per-session entry, whatever the lower layers hold; *)
(* an entry for only one session of d leaves the other at the per-date     *)
(* value.                                                                  *)
C6_DateOverrideForBothSessions ==
    (Resolved /\ HasSpecial /\ ~HasDateSession) => blocks = special_blocks[LastDate]

C6_Witness ==
    /\ Resolved /\ HasSpecial /\ ~HasDateSession
    /\ LastDate \in DOMAIN date_session_blocks
    /\ DOMAIN date_session_blocks[LastDate] = {OtherKey}
    /\ HasWeekDay /\ HasDay /\ HasSessionDefault
    /\ blocks = special_blocks[LastDate]
    /\ blocks # date_session_blocks[LastDate][OtherKey]
    /\ blocks # day_blocks[LastWeekKey][LastKey]
    /\ blocks # day_blocks[LastDayName][LastKey]
    /\ blocks # session_blocks[LastKey]
    /\ blocks # default_blocks

(* C7: with a week-scoped and a plain day-name entry for the date's        *)
(* weekday and session, and no per-date override, the resolved value is    *)
(* the week-scoped entry's.                                                *)
C7_WeekScopedWins ==
    (Resolved /\ HasWeekDay /\ HasDay /\ ~HasSpecial /\ ~HasDateSession)
        => blocks = day_blocks[LastWeekKey][LastKey]

(* C7, where the code agrees: the week-scoped value is resolved whenever   *)
(* it differs from the global default or no per-session default exists.    *)
C7_WeekScopedWinsUnlessDefault ==
    (/\ Resolved /\ HasWeekDay /\ HasDay /\ ~HasSpecial /\ ~HasDateSession
     /\ (day_blocks[LastWeekKey][LastKey] # default_blocks \/ ~HasSessionDefault))
        => blocks = day_blocks[LastWeekKey][LastKey]

(* C8: a day-name or week-scoped entry for the date's weekday and session  *)
(* has priority over the per-session default: with no per-date override    *)
(* the resolved value is the day entry's, for every value it may hold.     *)
C8_DayEntryOverSessionDefault ==
    (Resolved /\ (HasWeekDay \/ HasDay) /\ ~HasSpecial /\ ~HasDateSession)
        => blocks = (IF HasWeekDay THEN day_blocks[LastWeekKey][LastKey]
                                   ELSE day_blocks[LastDayName][LastKey])

(* C9: when no day-name, week-scoped, per-date or per-date-per-session     *)
(* entry matches, the resolved value is the per-session default if one is  *)
(* configured for the session and the global default otherwise.            *)
C9_FallThroughToDefaults ==
    (Resolved /\ ~HasWeekDay /\ ~HasDay /\ ~HasSpecial /\ ~HasDateSession)
        => blocks = (IF HasSessionDefault THEN session_blocks[LastKey] ELSE default_blocks)

C9_Witness ==
    /\ Resolved /\ ~HasWeekDay /\ ~HasDay /\ ~HasSpecial /\ ~HasDateSession
    /\ HasSessionDefault
    /\ OtherKey \notin DOMAIN session_blocks
    /\ blocks = session_blocks[LastKey]
    /\ blocks # default_blocks

(* C10: generate_exam_dates returns each date d of start..end that is not  *)
(* a Sunday skipped by the flag and not a holiday exactly once, and no     *)
(* other date.                                                             *)
Occurrences(d) == Cardinality({j \in 1..Len(dates) : dates[j] = d})

C10_ExactlyTheActiveDates ==
    pc # "dates" =>
        /\ \A j \in 1..Len(dates) : dates[j] \in CalDays
        /\ \A d \in CalDays :
               Occurrences(d) =
                   IF /\ start_date <= d /\ d <= end_date
                      /\ ~(exclude_weekends /\ d % 7 = 6)
                      /\ ~(\E h \in 1..Len(holidays) : holidays[h] = d)
                   THEN 1 ELSE 0

C10_Witness ==
    /\ pc = "roster"
    /\ ~exclude_weekends
    /\ \E j \in 1..Len(dates) : dates[j] % 7 = 6
    /\ \E d \in start_date..end_date : d % 7 # 6 /\ InList(d, holidays)
    /\ Len(dates) >= 2

C10_WitnessSundaySkipped ==
    /\ pc = "roster"
    /\ exclude_weekends
    /\ \E d \in start_date..end_date : d % 7 = 6
    /\ Len(dates) >= 2

(* C11: the sequence generate_exam_dates builds and returns is strictly    *)
(* increasing, whatever the start, end, flag and holiday list (repeated    *)
(* and out-of-range holidays included).                                    *)
C11_DatesStrictlyIncreasing ==
    \A j, k \in 1..Len(dates) : j < k => dates[j] < dates[k]

C11_Witness ==
    /\ pc = "roster"
    /\ Len(dates) >= 2
    /\ Len(holidays) = 2
    /\ holidays[1] = holidays[2]
    /\ \E h \in 1..Len(holidays) : holidays[h] < start_date \/ holidays[h] > end_date

(* C12: generate_exam_dates returns for every input, and with the start    *)
(* date after the end date it returns the empty sequence.                  *)
C12_ResolverTerminates ==
    /\ <>(pc # "dates")
    /\ [](start_date > end_date /\ pc # "dates" => dates = <<>>)

C12_Witness ==
    /\ pc = "roster"
    /\ start_date > end_date
    /\ dates = <<>>

(* C13: with an empty roster generate_schedule raises before it resolves   *)
(* any blocks value, sizes any demand or assigns anybody, and no schedule  *)
(* entry exists, whatever the date sequence.                               *)
C13_EmptyRosterRaisesFirst ==
    /\ [](Len(names) = 0 =>
            /\ pc \in {"dates", "roster", "error"}
            /\ blocks = 0
            /\ morning_total = 0 /\ evening_total = 0
            /\ assignments = <<>>
            /\ assigned = <<>>
            /\ schedule_rows = <<>>)
    /\ (Len(names) = 0 ~> pc = "error")

C13_Witness ==
    /\ pc = "error"
    /\ Len(names) = 0
    /\ Len(dates) >= 2
    /\ schedule_rows = <<>>

(* C14: with a non-empty roster no error is raised, and a call given the   *)
(* empty date sequence returns a schedule with no entry.                   *)
C14_EmptyDatesEmptySchedule ==
    /\ [](Len(names) # 0 => pc # "error")
    /\ [](pc = "done" /\ dates = <<>> => schedule_rows = <<>> /\ assignments = <<>>)
    /\ ((Len(names) # 0 /\ pc = "roster" /\ dates = <<>>) ~> (pc = "done" /\ schedule_rows = <<>>))

C14_Witness ==
    /\ pc = "done"
    /\ Len(names) # 0
    /\ dates = <<>>
    /\ start_date <= end_date
    /\ schedule_rows = <<>>

AllSlots == {<<dates[j], Sessions[k]>> : j \in 1..Len(dates), k \in 1..Len(Sessions)}

(* C15: when the blocks value resolved for some (date, session) of the run *)
(* is zero or negative, nobody is assigned, no schedule entry is produced  *)
(* and no schedule is returned.                                            *)
C15_NonPositiveBlocksRejected ==
    (pc # "dates" /\ \E slot \in AllSlots : ResolveBlocks(slot[1], slot[2]) <= 0)
        => (pc # "done" /\ schedule_rows = <<>> /\ assigned = <<>>)

(* C16: each (date, session) gets the same blocks value in the first pass  *)
(* and in the second pass, and with positive blocks the totals of the      *)
(* first pass are the numbers of Morning and Evening assignments made.     *)
RECURSIVE AssignmentsMade(_, _)
AssignmentsMade(rows, session) ==
    IF rows = <<>> THEN 0
    ELSE (IF Head(rows).session = session THEN Len(Head(rows).assigned) ELSE 0)
         + AssignmentsMade(Tail(rows), session)

C16_BothPassesAgree ==
    /\ (pc = "pass1" /\ si = 2) => blocks = ResolveBlocks(dates[di], "Morning")
    /\ (pc = "pass1" /\ si = 1 /\ di > 1) => blocks = ResolveBlocks(dates[di - 1], "Evening")
    /\ (pc = "pass2" /\ si = 2) => blocks = FirstPassBlocks(dates[di], "Morning")
    /\ (pc = "pass2" /\ si = 1 /\ di > 1) => blocks = FirstPassBlocks(dates[di - 1], "Evening")
    /\ (pc = "done" /\ \A slot \in AllSlots : ResolveBlocks(slot[1], slot[2]) > 0)
           => /\ morning_total = AssignmentsMade(schedule_rows, "Morning")
              /\ evening_total = AssignmentsMade(schedule_rows, "Evening")

C16_Witness ==
    /\ pc = "done"
    /\ dates = <<0>>
    /\ DOMAIN date_session_blocks = {0}
    /\ DOMAIN day_blocks # {}
    /\ morning_total # evening_total
    /\ morning_total = AssignmentsMade(schedule_rows, "Morning")
    /\ evening_total = AssignmentsMade(schedule_rows, "Evening")
    /\ evening_total = 4

(* C17: the week of 2024-01-01..2024-01-07, Sundays skipped, no holidays,  *)
(* blocks 2 everywhere, roster A, B, C: the dates are Jan 1..Jan 6, the    *)
(* schedule has 12 entries of 4 supervisors, and each supervisor appears   *)
(* between 15 and 17 times.                                                *)
RECURSIVE Appearances(_, _)
Appearances(rows, name) ==
    IF rows = <<>> THEN 0
    ELSE Cardinality({j \in 1..Len(Head(rows).assigned) : Head(rows).assigned[j] = name})
         + Appearances(Tail(rows), name)

IsScenario == holidays = <<>> /\ names = <<"A", "B", "C">>

C17_WeekScenario ==
    /\ (IsScenario /\ pc # "dates") => dates = <<0, 1, 2, 3, 4, 5>>
    /\ (IsScenario /\ pc = "done") =>
           /\ Len(schedule_rows) = 12
           /\ \A r \in 1..12 : Len(schedule_rows[r].assigned) = 4
           /\ \A n \in {"A", "B", "C"} :
                  Appearances(schedule_rows, n) >= 15 /\ Appearances(schedule_rows, n) <= 17

C17_Witness ==
    /\ IsScenario
    /\ pc = "done"
    /\ Len(schedule_rows) = 12
    /\ \A n \in {"A", "B", "C"} : Appearances(schedule_rows, n) = 16

(* C18: with a roster of one supervisor every schedule entry's assigned    *)
(* list is that supervisor's name repeated required-count times (the       *)
(* empty list when the required count is not positive).                    *)
C18_SingleSupervisorRepeated ==
    Len(names) = 1 =>
        \A r \in 1..Len(schedule_rows) :
            LET b == ResolveBlocks(schedule_rows[r].date, schedule_rows[r].session)
                count == b + (IF b = 1 THEN 1 ELSE 2)
            IN  schedule_rows[r].assigned = [j \in 1..count |-> names[1]]

C18_Witness ==
    /\ Len(names) = 1
    /\ pc = "done"
    /\ \E r \in 1..Len(schedule_rows) :
           schedule_rows[r].assigned = <<names[1], names[1], names[1], names[1]>>
    /\ \E r \in 1..Len(schedule_rows) :
           schedule_rows[r].assigned = <<names[1], names[1]>>

(* C19: a call of generate_schedule made after another call with the same  *)
(* dates, configuration and roster returns the schedule the earlier call   *)
(* returned, and starts its load counters at zero.                         *)
C19_SecondRunSameSchedule ==
    /\ (run >= 2 /\ pc = "done") => schedule_rows = previous_schedule
    /\ (run >= 2 /\ pc = "pass2" /\ assignments = <<>>) =>
           \A n \in RosterSet : supervisor_morning_count[n] = 0 /\ supervisor_evening_count[n] = 0

C19_Witness ==
    /\ run = 2
    /\ pc = "done"
    /\ Len(names) = 3
    /\ Len(schedule_rows) = 4
    /\ schedule_rows = previous_schedule
    /\ \E a, b \in RosterSet : supervisor_morning_count[a] # supervisor_morning_count[b]

(* C20: a call running concurrently with another call, their steps         *)
(* interleaved in any order, builds and returns the schedule a call        *)
(* running alone returns: no load counter is shared between calls.         *)
IsPrefix(p, q) == Len(p) <= Len(q) /\ \A j \in 1..Len(p) : p[j] = q[j]

C20_ConcurrentRunsIndependent ==
    /\ (run >= 2 /\ pc = "done") => schedule_rows = previous_schedule
    /\ run >= 2 => IsPrefix(schedule_rows, previous_schedule)
    /\ other.pc = "done" => other.schedule_rows = previous_schedule
    /\ (other.pc # "idle" /\ run >= 2) => IsPrefix(other.schedule_rows, previous_schedule)

C20_Witness ==
    /\ run = 2
    /\ pc = "assign"
    /\ other.pc = "assign"
    /\ Len(names) = 2
    /\ i > 0
    /\ other.i > 0
    /\ Len(schedule_rows) = 1
    /\ Len(other.schedule_rows) = 2
    /\ supervisor_morning_count # other.supervisor_morning_count
    /\ IsPrefix(other.schedule_rows, previous_schedule)

(* C21: the table build_supervisor_table returns has one row for a date of *)
(* the schedule exactly when the supervisor occurs in that date's Morning  *)
(* or Evening assigned list; the row's Morning (Evening) tick is set       *)
(* exactly when the supervisor occurs in the Morning (Evening) list; rows  *)
(* are in ascending date order and numbered 1, 2, 3, ...                   *)
Occurs(d, session) ==
    \E j \in 1..Len(schedule_df) :
        /\ schedule_df[j].date = d
        /\ schedule_df[j].session = session
        /\ InList(supervisor_name, schedule_df[j].assigned)

RowsFor(d) == {r \in 1..Len(table_rows) : table_rows[r].Date = FormatDate(d)}

C21_SupervisorTable ==
    tpc = "done" =>
        /\ \A d \in UniqueDates(schedule_df) :
               /\ Cardinality(RowsFor(d)) =
                      (IF Occurs(d, "Morning") \/ Occurs(d, "Evening") THEN 1 ELSE 0)
               /\ \A r \in RowsFor(d) :
                      /\ (table_rows[r].Morning = "tick") <=> Occurs(d, "Morning")
                      /\ (table_rows[r].Evening = "tick") <=> Occurs(d, "Evening")
        /\ \A r \in 1..Len(table_rows) :
               /\ table_rows[r].SrNo = r
               /\ \E d \in UniqueDates(schedule_df) : r \in RowsFor(d)
        /\ \A r1, r2 \in 1..Len(table_rows) :
               r1 < r2 => \E d1, d2 \in UniqueDates(schedule_df) :
                              d1 < d2 /\ r1 \in RowsFor(d1) /\ r2 \in RowsFor(d2)

C21_Witness ==
    /\ tpc = "done"
    /\ Len(schedule_df) = 3
    /\ schedule_df[1].date > schedule_df[3].date
    /\ Len(table_rows) = 2
    /\ table_rows[1].Morning = "" /\ table_rows[1].Evening = "tick"
    /\ table_rows[2].Morning = "tick"
    /\ \E j \in 1..3 : ~InList(supervisor_name, schedule_df[j].assigned)

(* C22: when the roster (distinct names) is at least as large as a slot's  *)
(* required count, no name occurs twice in that slot's assigned list, in   *)
(* every reachable state of a run.                                         *)
NoRepeat(list) == \A a, b \in 1..Len(list) : a # b => list[a] # list[b]

C22_NoRepeatWhenRosterSuffices ==
    /\ \A r \in 1..Len(schedule_rows) :
           Len(names) >= RequiredCount(ResolveBlocks(schedule_rows[r].date,
                                                     schedule_rows[r].session))
               => NoRepeat(schedule_rows[r].assigned)
    /\ (pc = "assign" /\ ai <= Len(assignments) /\ Len(names) >= assignments[ai].count)
           => NoRepeat(assigned)

(* C23: after every assignment step the morning counts of any two          *)
(* supervisors differ by at most 1, and so do their evening counts.        *)
C23_SessionCountsBalanced ==
    \A a, b \in DOMAIN supervisor_morning_count :
        /\ supervisor_morning_count[a] - supervisor_morning_count[b] <= 1
        /\ supervisor_evening_count[a] - supervisor_evening_count[b] <= 1

C23_Witness ==
    /\ pc = "assign"
    /\ i > 0
    /\ Len(names) = 4
    /\ \E a, b \in DOMAIN supervisor_morning_count :
           /\ supervisor_morning_count[a] = supervisor_morning_count[b] + 1
           /\ supervisor_evening_count[b] = supervisor_evening_count[a] + 1
    /\ \E a \in DOMAIN supervisor_morning_count : supervisor_morning_count[a] >= 3

(* C24: after every assignment step no supervisor is strictly behind       *)
(* another in both the morning count and the evening count, so the total   *)
(* loads of any two supervisors differ by at most 1.                       *)
C24_TotalLoadBalanced ==
    \A a, b \in DOMAIN supervisor_morning_count :
        /\ ~(/\ supervisor_morning_count[a] < supervisor_morning_count[b]
             /\ supervisor_evening_count[a] < supervisor_evening_count[b])
        /\ Total(a) - Total(b) <= 1

C24_Witness ==
    /\ pc = "assign"
    /\ i > 0
    /\ Len(names) = 3
    /\ \E a, b \in DOMAIN supervisor_morning_count :
           /\ Total(a) = Total(b) + 1
           /\ supervisor_morning_count[a] = supervisor_morning_count[b] + 1
           /\ supervisor_evening_count[a] = supervisor_evening_count[b]
    /\ \E a \in DOMAIN supervisor_morning_count : Total(a) >= 5

(* C25: the blocks entered in the app for the k-th week of the exam        *)
(* period, a day name and a session (stored under week_k_DayName) is the   *)
(* blocks value generate_schedule resolves for the dates of that week and  *)
(* day, no per-date override being configured.                             *)
WeekIdx(d) == CHOOSE week_idx \in 1..Len(sorted_weeks) : sorted_weeks[week_idx] = IsoWeek(d)

EnteredBlocks(d, session) ==
    day_blocks[AppKey(WeekIdx(d), day_names[Weekday(d) + 1])][Lower(session)]

C25_EnteredBlocksAreUsed ==
    apc = "generate" =>
        /\ pc # "dates" => dates = exam_dates
        /\ \A k \in 1..Len(assignments) :
               assignments[k].count =
                   RequiredCount(EnteredBlocks(assignments[k].date, assignments[k].session))

(* C25 holds for an exam period whose first week is ISO week 1 *)
C25_EnteredBlocksAreUsedFromWeekOne ==
    (apc = "generate" /\ start_date < 7) =>
        \A k \in 1..Len(assignments) :
            assignments[k].count =
                RequiredCount(EnteredBlocks(assignments[k].date, assignments[k].session))

(* C26: for a positive blocks value the required count is 2 when blocks is *)
(* 1 and blocks + 2, at least 4, otherwise; it is strictly increasing in   *)
(* blocks and is never 1 or 3.                                             *)
BlocksOf(k) == ResolveBlocks(assignments[k].date, assignments[k].session)

C26_RequiredCountOfPositiveBlocks ==
    /\ \A k \in 1..Len(assignments) :
           BlocksOf(k) > 0 =>
               /\ BlocksOf(k) = 1 => assignments[k].count = 2
               /\ BlocksOf(k) # 1 =>
                      assignments[k].count = BlocksOf(k) + 2 /\ assignments[k].count >= 4
               /\ assignments[k].count \notin {1, 3}
    /\ \A k1, k2 \in 1..Len(assignments) :
           (BlocksOf(k1) > 0 /\ BlocksOf(k1) < BlocksOf(k2))
               => assignments[k1].count < assignments[k2].count

C26_Witness ==
    /\ pc = "done"
    /\ \E k1, k2 \in 1..Len(assignments) :
           /\ BlocksOf(k1) = 1 /\ assignments[k1].count = 2
           /\ BlocksOf(k2) = 2 /\ assignments[k2].count = 4
    /\ Len(schedule_rows[1].assigned) = 2

(* C27: after 'Clear persisted schedule' is pressed the schedule is not in *)
(* the session at the end of that run, and it is not loaded back from disk *)
(* in that or any later run until a schedule is generated again.           *)
C27_ClearedScheduleStaysCleared ==
    cleared =>
        /\ loaded_now = "no"
        /\ apc = "idle" => ~session_schedule.present

(* C28: a persisted schedule older than TTL_DAYS days is never auto-loaded *)
(* (it becomes the session's schedule only by 'Load persisted schedule     *)
(* (force)'), and one not older than TTL_DAYS days that normalizes is      *)
(* loaded automatically when the session has no schedule.                  *)
OlderThanTTL == now - generated_at > TicksPerDay * TTL_DAYS

C28_StaleNeverAutoLoaded ==
    /\ (apc # "idle" /\ loaded_now = "auto") => ~OlderThanTTL
    /\ loaded_now = "force" => pressed.button = "force"
    /\ (/\ apc = "press"
        /\ ~session_schedule.present
        /\ LoadScheduleState.present
        /\ Normalizes(LoadScheduleState)) => OlderThanTTL

(* C29: in the session's absentee map every supervisor has each (date,     *)
(* session) absence at most once, whatever memo buttons were pressed.      *)
C29_AbsencesAtMostOnce ==
    \A name \in DOMAIN absentee_map : NoRepeat(absentee_map[name])

(* C30: every absence that 'Generate memos for absentees' produces is for  *)
(* a supervisor assigned to that date and session in the current schedule  *)
(* and not marked present.                                                 *)
C30_AbsencesOfCurrentSchedule ==
    (pressed.button = "gen_memos" /\ apc = "idle" /\ AllAbsences(attendance) # <<>>) =>
        \A name \in DOMAIN absentee_map :
            \A j \in 1..Len(absentee_map[name]) :
                /\ session_schedule.present
                /\ InList(name, FirstAssigned(session_schedule.df,
                                              absentee_map[name][j][1],
                                              absentee_map[name][j][2]))
                /\ name \notin ticked

====
